---- MODULE Spec2Model ----
(***************************************************************************)
(* A model of src/working_final.py: the helpers is_supported_url,          *)
(* ffmpeg_available and ffprobe_available, and DownloadWorker.run as a     *)
(* state machine.                                                          *)
(*                                                                         *)
(* Python strings are sequences of one-character strings, so that strip,   *)
(* lower, startswith, "in" and urlparse are computed and not assumed.      *)
(* Filesystem paths are sequences of components: an absolute path starts   *)
(* with the component "/", a one-component path is a bare relative name.   *)
(* The extractor (yt_dlp.YoutubeDL) is an external library: each           *)
(* with-statement that constructs it and calls extract_info is one         *)
(* attempt that delivers progress events and then returns or raises an     *)
(* Exception.                                                              *)
(***************************************************************************)
EXTENDS Integers, Sequences, FiniteSets, TLC

(***************************************************************************)
(* Bounds of the model.                                                    *)
(***************************************************************************)
\* progress events the extractor delivers in one run, both attempts together
MaxEvents == 2

\* the same, in the runs that fill the diagnostic buffer
MaxDiagEvents == 201

\* the entries of the allow-list given to is_supported_url
MaxSites == 1

(***************************************************************************)
(* Strings.                                                                *)
(***************************************************************************)
Min(a, b) == IF a <= b THEN a ELSE b

Max(a, b) == IF a >= b THEN a ELSE b

\* str.lower() on one character (the letters the model's inputs use)
LowerChar(c) ==
  CASE c = "A" -> "a" [] c = "B" -> "b" [] c = "C" -> "c" [] c = "F" -> "f"
    [] c = "H" -> "h" [] c = "I" -> "i" [] c = "P" -> "p" [] c = "S" -> "s"
    [] c = "T" -> "t" [] c = "Y" -> "y"
    [] OTHER -> c

\* str.lower()
Lower(s) == [i \in 1..Len(s) |-> LowerChar(s[i])]

\* the characters str.strip() removes
Whitespace == {" ", "\t", "\n"}

\* str.lstrip()
RECURSIVE LStrip(_)
LStrip(s) == IF s # <<>> /\ s[1] \in Whitespace THEN LStrip(Tail(s)) ELSE s

\* str.rstrip()
RECURSIVE RStrip(_)
RStrip(s) ==
  IF s # <<>> /\ s[Len(s)] \in Whitespace THEN RStrip(SubSeq(s, 1, Len(s) - 1)) ELSE s

\* str.strip()
Strip(s) == RStrip(LStrip(s))

\* str.startswith(p)
StartsWith(s, p) == Len(p) <= Len(s) /\ SubSeq(s, 1, Len(p)) = p

\* the operator "p in s" on strings
Contains(s, p) ==
  \E i \in 0..(Len(s) - Len(p)) : SubSeq(s, i + 1, i + Len(p)) = p

\* s[:n] where s[-n:] is meant
FirstN(s, n) == SubSeq(s, 1, Min(n, Len(s)))

\* s[-n:]
LastN(s, n) == SubSeq(s, Max(1, Len(s) - n + 1), Len(s))

\* the least index of s holding a character of cs, or 0
FirstOf(s, cs) ==
  IF \E i \in 1..Len(s) : s[i] \in cs
  THEN CHOOSE i \in 1..Len(s) : s[i] \in cs /\ \A j \in 1..(i - 1) : s[j] \notin cs
  ELSE 0

\* the greatest index of s holding a character of cs, or 0
LastOf(s, cs) ==
  IF \E i \in 1..Len(s) : s[i] \in cs
  THEN CHOOSE i \in 1..Len(s) : s[i] \in cs /\ \A j \in (i + 1)..Len(s) : s[j] \notin cs
  ELSE 0

HTTP == <<"h", "t", "t", "p", ":", "/", "/">>

HTTPS == <<"h", "t", "t", "p", "s", ":", "/", "/">>

\* s.startswith(('http://', 'https://'))
HasHttpPrefix(s) == StartsWith(s, HTTP) \/ StartsWith(s, HTTPS)

(***************************************************************************)
(* is_supported_url: lines 38-63.                                          *)
(* urlparse is urllib.parse.urlparse of Python 3.11: it strips leading     *)
(* blanks, removes tabs and newlines, splits a scheme off, takes the       *)
(* netloc after "//" up to the first of "/", "?" and "#", and raises       *)
(* ValueError on a netloc with an unmatched or ill-filled bracket.         *)
(***************************************************************************)
\* the Python value None, where a string is expected
NONE == <<"None">>

\* a value that is no string and is true, such as a number of the configuration
NONSTR == <<"<number>">>

Letters ==
  {"a", "b", "c", "d", "e", "f", "g", "h", "i", "m", "n", "o", "p", "r", "s", "t",
   "u", "v", "x", "y", "A", "B", "C", "F", "H", "I", "P", "S", "T", "Y"}

\* urllib.parse.scheme_chars
SchemeChars == Letters \cup {"0", "1", "5", "8", "+", "-", "."}

\* str.replace(b, "") for the characters of _UNSAFE_URL_BYTES_TO_REMOVE
RECURSIVE RemoveUnsafe(_)
RemoveUnsafe(s) ==
  IF s = <<>> THEN <<>>
  ELSE IF s[1] \in {"\t", "\n"} THEN RemoveUnsafe(Tail(s))
  ELSE <<s[1]>> \o RemoveUnsafe(Tail(s))

\* the url after its scheme, if it has one
AfterScheme(u) ==
  LET i == FirstOf(u, {":"})
  IN IF i > 1 /\ u[1] \in Letters /\ \A j \in 1..(i - 1) : u[j] \in SchemeChars
     THEN SubSeq(u, i + 1, Len(u))
     ELSE u

\* ipaddress.ip_address accepts the text as an IPv6 address, or it is 'vN.x'
BracketedHostOk(h) ==
  \/ h \in {<<":", ":">>, <<":", ":", "1">>}
  \/ Len(h) >= 4 /\ h[1] = "v" /\ h[2] \in {"1", "5", "8"} /\ h[3] = "."

\* urlparse(u).netloc, or the ValueError it raises
UrlNetloc(url) ==
  LET u == AfterScheme(RemoveUnsafe(LStrip(url)))
  IN IF ~StartsWith(u, <<"/", "/">>) THEN [raises |-> FALSE, netloc |-> <<>>]
     ELSE LET rest == SubSeq(u, 3, Len(u))
              delim == FirstOf(rest, {"/", "?", "#"})
              netloc == IF delim = 0 THEN rest ELSE SubSeq(rest, 1, delim - 1)
              open == FirstOf(netloc, {"["})
              after == SubSeq(netloc, open + 1, Len(netloc))
              close == FirstOf(after, {"]"})
          IN IF (open # 0) # (FirstOf(netloc, {"]"}) # 0)
             THEN [raises |-> TRUE, netloc |-> <<>>]
             ELSE IF open # 0 /\ ~BracketedHostOk(SubSeq(after, 1, close - 1))
             THEN [raises |-> TRUE, netloc |-> <<>>]
             ELSE [raises |-> FALSE, netloc |-> netloc]

\* lines 43-46 without the 'https://' put before a url that has no scheme
UrlToParseUnprefixed(url) == url

\* url_to_parse: lines 43-46
UrlToParse(url) == IF ~HasHttpPrefix(Lower(url)) THEN HTTPS \o url ELSE url

\* s_netloc: lines 54-58
SiteNetloc(site) ==
  LET s == Lower(Strip(site))
      parsed == UrlNetloc(s)
  IN IF parsed.raises \/ parsed.netloc = <<>> THEN s ELSE Lower(parsed.netloc)

\* line 59 for one entry of the list
SiteMatches(site, netloc) == SiteNetloc(site) # <<>> /\ Contains(netloc, SiteNetloc(site))

\* lines 51-61: "raise" when an entry is no string, else the value returned
RECURSIVE MatchSites(_, _, _)
MatchSites(sites, netloc, url_to_parse) ==
  IF sites = <<>> THEN (IF HasHttpPrefix(Lower(url_to_parse)) THEN "True" ELSE "False")
  ELSE IF sites[1] = <<>> \/ sites[1] = NONE THEN MatchSites(Tail(sites), netloc, url_to_parse)
  ELSE IF sites[1] = NONSTR THEN "raise"
  ELSE IF SiteMatches(sites[1], netloc) THEN "True"
  ELSE MatchSites(Tail(sites), netloc, url_to_parse)

\* lines 43-46 with a url that has no scheme rejected
is_supported_url_scheme_required(url, supported_sites) ==
  IF url = <<>> \/ ~HasHttpPrefix(Lower(url)) THEN "False"
  ELSE LET parsed == UrlNetloc(url)
           netloc == Strip(Lower(parsed.netloc))
       IN IF parsed.raises THEN "True"
          ELSE IF netloc = <<>> THEN "True"
          ELSE IF MatchSites(supported_sites, netloc, url) = "False" THEN "False"
          ELSE "True"

\* lines 41-61, the body of the try: "True" or "False" for the value returned,
\* "raise" when an exception leaves the body
SupportedTry(url, supported_sites) ==
  IF url = <<>> THEN "False"
  ELSE LET url_to_parse == UrlToParse(url)
           parsed == UrlNetloc(url_to_parse)
           netloc == Strip(Lower(parsed.netloc))
       IN IF parsed.raises THEN "raise"
          ELSE IF netloc = <<>>
               THEN (IF HasHttpPrefix(Lower(url_to_parse)) THEN "True" ELSE "False")
          ELSE MatchSites(supported_sites, netloc, url_to_parse)

\* lines 62-63 without the handler: the exception leaves the function
ExceptReraises(outcome) == outcome

\* lines 62-63: except Exception: return True
ExceptTrue(outcome) == IF outcome = "raise" THEN "True" ELSE outcome

\* is_supported_url: lines 38-63; "True" or "False" for the boolean returned
is_supported_url(url, supported_sites) == ExceptTrue(SupportedTry(url, supported_sites))

(***************************************************************************)
(* Paths and the filesystem.                                               *)
(* A configured tool path is [pad, comps]: the string is the components    *)
(* joined by the separator, with surrounding blanks when pad is TRUE.      *)
(* A filesystem maps a path (a sequence of components) to what is there:   *)
(* "none", "dir", "exec" (an executable file) or "file" (a file that is    *)
(* not executable).                                                        *)
(***************************************************************************)
ROOT == <<"/">>

OPT == <<"/", "opt">>

\* os.path.dirname
Dirname(p) == IF Len(p) <= 1 THEN (IF p = ROOT THEN ROOT ELSE <<>>) ELSE SubSeq(p, 1, Len(p) - 1)

\* os.path.join(p, name)
Join(p, name) == Append(p, name)

\* the paths a filesystem of the model describes; every other path is absent
FsPaths ==
  {ROOT, OPT, Join(OPT, "ffmpeg"), Join(OPT, "ffprobe"), Join(OPT, "tool"),
   <<"ffmpeg">>, <<"tool">>}

Kind(fs, p) == IF p \in FsPaths THEN fs.at[p] ELSE "none"

\* os.path.isfile
IsFile(fs, p) == Kind(fs, p) \in {"exec", "file"}

\* os.path.isdir
IsDir(fs, p) == Kind(fs, p) = "dir"

\* os.access(p, os.X_OK) of a file
IsExecutable(fs, p) == Kind(fs, p) \in {"exec", "dir"}

\* shutil.which(name) is not None
Which(fs, name) == name \in fs.on_path

\* str.lower() of a path component
LowerName(n) == IF n = "FFmpeg" THEN "ffmpeg" ELSE n

\* bool(ffmpeg_path)
Truthy(fp) == fp.pad \/ fp.comps # <<>>

\* ffmpeg_path.strip()
StripPath(fp) == fp.comps

\* ffmpeg_path.lower() != 'ffmpeg'
NotDefaultName(fp) ==
  ~(~fp.pad /\ Len(fp.comps) = 1 /\ LowerName(fp.comps[1]) = "ffmpeg")

\* the condition of lines 68, 94 and 176
ExplicitPath(fp) == Truthy(fp) /\ StripPath(fp) # <<>> /\ NotDefaultName(fp)

\* the path the unstripped string names: with surrounding blanks it is another name
Unstripped(fp) == IF fp.pad THEN <<"(padded)">> \o fp.comps ELSE fp.comps

\* os.path.isfile(candidate) and os.access(candidate, os.X_OK)
ExecFile(fs, p) == IsFile(fs, p) /\ IsExecutable(fs, p)

\* lines 65-89 without the look into the parent directory of lines 79-85
ffmpeg_available_without_parent(fs, ffmpeg_path) ==
  IF ExplicitPath(ffmpeg_path)
  THEN LET fp == StripPath(ffmpeg_path)
       IN IF ExecFile(fs, fp) THEN TRUE
          ELSE IF IsDir(fs, fp) THEN ExecFile(fs, Join(fp, "ffmpeg"))
          ELSE Which(fs, "ffmpeg")
  ELSE Which(fs, "ffmpeg")

\* ffmpeg_available: lines 65-89 (POSIX: no '.exe' is appended)
ffmpeg_available(fs, ffmpeg_path) ==
  IF ExplicitPath(ffmpeg_path)
  THEN LET fp == StripPath(ffmpeg_path)
           maybe_dir == Dirname(fp)
       IN IF ExecFile(fs, fp) THEN TRUE
          ELSE IF IsDir(fs, fp) THEN ExecFile(fs, Join(fp, "ffmpeg"))
          ELSE IF maybe_dir # <<>> /\ IsDir(fs, maybe_dir) /\ ExecFile(fs, Join(maybe_dir, "ffmpeg"))
               THEN TRUE
               ELSE Which(fs, "ffmpeg")
  ELSE Which(fs, "ffmpeg")

\* ffprobe_available: lines 91-112
ffprobe_available(fs, ffmpeg_path) ==
  IF ExplicitPath(ffmpeg_path)
  THEN LET fp == StripPath(ffmpeg_path)
       IN IF IsFile(fs, fp) /\ ExecFile(fs, Join(Dirname(fp), "ffprobe")) THEN TRUE
          ELSE IF IsDir(fs, fp) /\ ExecFile(fs, Join(fp, "ffprobe")) THEN TRUE
          ELSE Which(fs, "ffprobe")
  ELSE Which(fs, "ffprobe")

\* the ffmpeg_location of lines 174-186, <<>> for None
FfmpegLocation(fs, ffmpeg_path) ==
  IF ExplicitPath(ffmpeg_path)
  THEN LET p == Unstripped(ffmpeg_path)
           maybe_dir == Dirname(p)
       IN IF IsFile(fs, p) THEN Dirname(p)
          ELSE IF IsDir(fs, p) THEN p
          ELSE IF maybe_dir # <<>> /\ IsDir(fs, maybe_dir) THEN maybe_dir
          ELSE <<>>
  ELSE <<>>

\* where a check found its binary: a directory, the search path, or nowhere
SEARCH_PATH == <<"(search path)">>

NOT_FOUND == <<"(not found)">>

\* the place whose binary makes ffmpeg_available return True: lines 70, 76, 84, 87
FfmpegFoundIn(fs, ffmpeg_path) ==
  LET on_path == IF Which(fs, "ffmpeg") THEN SEARCH_PATH ELSE NOT_FOUND
  IN IF ExplicitPath(ffmpeg_path)
     THEN LET fp == StripPath(ffmpeg_path)
              maybe_dir == Dirname(fp)
          IN IF ExecFile(fs, fp) THEN Dirname(fp)
             ELSE IF IsDir(fs, fp)
                  THEN (IF ExecFile(fs, Join(fp, "ffmpeg")) THEN fp ELSE NOT_FOUND)
             ELSE IF maybe_dir # <<>> /\ IsDir(fs, maybe_dir) /\ ExecFile(fs, Join(maybe_dir, "ffmpeg"))
                  THEN maybe_dir
                  ELSE on_path
     ELSE on_path

\* the place whose binary makes ffprobe_available return True: lines 100, 106, 109
FfprobeFoundIn(fs, ffmpeg_path) ==
  LET on_path == IF Which(fs, "ffprobe") THEN SEARCH_PATH ELSE NOT_FOUND
  IN IF ExplicitPath(ffmpeg_path)
     THEN LET fp == StripPath(ffmpeg_path)
          IN IF IsFile(fs, fp) /\ ExecFile(fs, Join(Dirname(fp), "ffprobe")) THEN Dirname(fp)
             ELSE IF IsDir(fs, fp) /\ ExecFile(fs, Join(fp, "ffprobe")) THEN fp
             ELSE on_path
     ELSE on_path

(***************************************************************************)
(* The output template: lines 149-156.                                     *)
(***************************************************************************)
\* '%(ext)s'
EXT == <<"%", "(", "e", "x", "t", ")", "s">>

\* the characters of the class [<>:\"/\\|?*\x00-\x1f] of line 153
Reserved == {"<", ">", ":", "\"", "/", "\\", "|", "?", "*", "\t", "\n"}

\* os.path.basename (POSIX)
Basename(s) == SubSeq(s, LastOf(s, {"/"}) + 1, Len(s))

\* re.sub(r'[<>:\"/\\|?*\x00-\x1f]', '_', filename)
Sanitize(s) == [i \in 1..Len(s) |-> IF s[i] \in Reserved THEN "_" ELSE s[i]]

\* os.path.join(directory, filename) on strings (POSIX)
JoinStr(d, f) ==
  IF StartsWith(f, <<"/">>) THEN f
  ELSE IF d = <<>> \/ d[Len(d)] = "/" THEN d \o f
  ELSE d \o <<"/">> \o f

\* lines 150-155 without os.path.basename: the directory part is kept
EffectiveFilenameKeepsDirectory(manual_filename, filename_template) ==
  IF manual_filename # <<>>
  THEN LET f == Sanitize(Strip(manual_filename))
       IN IF ~Contains(f, EXT) /\ ~Contains(filename_template, EXT)
          THEN f \o <<".">> \o EXT
          ELSE f
  ELSE filename_template

\* the filename of lines 150-155
EffectiveFilename(manual_filename, filename_template) ==
  IF manual_filename # <<>>
  THEN LET f == Sanitize(Basename(Strip(manual_filename)))
       IN IF ~Contains(f, EXT) /\ ~Contains(filename_template, EXT)
          THEN f \o <<".">> \o EXT
          ELSE f
  ELSE filename_template

\* whether lines 150-156 raise: a template or a directory that is no string
PrepareRaises(w) ==
  \/ w.directory = NONE
  \/ /\ w.filename_template = NONE
     /\ \/ w.manual_filename = <<>>
        \/ ~Contains(Sanitize(Basename(Strip(w.manual_filename))), EXT)

\* outtmpl: line 156
Outtmpl(w) == JoinStr(w.directory, EffectiveFilename(w.manual_filename, w.filename_template))

(***************************************************************************)
(* The extractor options: lines 158-210 and 228-229.  An absent key is the *)
(* empty value.                                                            *)
(***************************************************************************)
PRIMARY_FORMAT == "bestvideo+bestaudio/best"

RETRY_FORMAT == "best"

INSTAGRAM == <<"i", "n", "s", "t", "a", "g", "r", "a", "m", ".", "c", "o", "m">>

INSTAGRAM_REFERER == "https://www.instagram.com/"

\* the Referer of lines 188-191, "" when none is set
Referer(video_url) ==
  IF Contains(Lower(video_url), INSTAGRAM) THEN INSTAGRAM_REFERER ELSE ""

\* ydl_opts as passed to the primary attempt
PrimaryOptions(w, fs, outtmpl) ==
  [outtmpl |-> outtmpl,
   format |-> PRIMARY_FORMAT,
   noplaylist |-> TRUE,
   cookiefile |-> w.cookies_file,
   ffmpeg_location |-> FfmpegLocation(fs, w.ffmpeg_path),
   referer |-> Referer(w.video_url),
   logger |-> TRUE,
   progress_hooks |-> TRUE]

\* lines 228-229 without the assignment of the relaxed format
RetryOptionsSameFormat(opts) == opts

\* lines 228-229 with the options built anew from the template: the other keys are lost
RetryOptionsRebuilt(opts) ==
  [outtmpl |-> opts.outtmpl,
   format |-> RETRY_FORMAT,
   noplaylist |-> TRUE,
   cookiefile |-> <<>>,
   ffmpeg_location |-> <<>>,
   referer |-> "",
   logger |-> FALSE,
   progress_hooks |-> FALSE]

\* ydl_opts_retry: lines 228-229
RetryOptions(opts) == [opts EXCEPT !.format = RETRY_FORMAT]

\* {'outtmpl': outtmpl}: line 257
TmpOptions(outtmpl) ==
  [outtmpl |-> outtmpl,
   format |-> "",
   noplaylist |-> FALSE,
   cookiefile |-> <<>>,
   ffmpeg_location |-> <<>>,
   referer |-> "",
   logger |-> FALSE,
   progress_hooks |-> FALSE]

\* no options built yet
NoOptions == TmpOptions(<<>>)

(***************************************************************************)
(* DownloadWorker.run: lines 147-274.                                      *)
(***************************************************************************)
VARIABLES
  worker,          \* the fields __init__ sets: lines 139-145
  fs,              \* the filesystem the run reads
  pc,              \* the position of run
  outtmpl,         \* line 156
  ydl_opts,        \* lines 161-210
  debug_messages,  \* line 200
  hooked,          \* the progress events the extractor has delivered
  primary_err,     \* line 225
  info,            \* lines 221 and 231
  saved_path,      \* line 245
  raised,          \* the exception on its way to line 270
  calls,           \* the extractor objects constructed, with the method called
  attempts,        \* how each download attempt ended, and the events delivered by then
  emitted,         \* the signals emitted, in order
  site_check,      \* a call of is_supported_url: its arguments and its result
  tool_check,      \* a call of ffmpeg_available and one of ffprobe_available
  hub,             \* MainHub: its configuration fields and its Download button
  started,         \* the workers the hub has started: line 480
  received,        \* the outcomes the hub's slots have received, in order
  fetcher          \* a VideoInfoFetcher: its url, its position and what it emitted

\* the state of a run of the worker
runvars ==
  <<worker, fs, pc, outtmpl, ydl_opts, debug_messages, hooked, primary_err, info,
    saved_path, raised, calls, attempts, emitted>>

\* the state a run of the worker leaves alone
\* the state of the hub
hubvars == <<hub, started, received>>

others == <<site_check, tool_check, hubvars, fetcher>>

vars == <<runvars, others>>

\* len(debug_messages) > 200: line 204
HookCap == 200

\* debug_messages[-25:]: line 224
PrimaryTail == 25

\* debug_messages[-50:]: line 234
RetryTail == 50

NoErr == [type |-> "", msg |-> ""]

\* what an attempt of the extractor raises
ExtractorErrors ==
  {[type |-> "DownloadError", msg |-> "requested format not available"],
   [type |-> "ExtractorError", msg |-> "unable to extract"]}

CookiesNotFound == [type |-> "Exception", msg |-> "Cookies file not found"]

FfmpegNotFound == [type |-> "Exception", msg |-> "FFmpeg not found"]

FfprobeNotFound == [type |-> "Exception", msg |-> "ffprobe not found"]

PrepareError == [type |-> "TypeError", msg |-> "expected str"]

NoContext == [err |-> NoErr, tb |-> NoErr, dbg |-> <<>>]

\* the three paths an extractor's result may name
FILEPATH == <<"/", "d", "/", "m">>

FILENAME == <<"/", "d", "/", "f">>

PREPARED == <<"/", "d", "/", "p">>

\* a result that is no dict (extract_info may return None)
NoInfo == [isdict |-> FALSE, requested_downloads |-> <<>>, filename1 |-> <<>>, filename2 |-> <<>>]

\* what extract_info may return: requested_downloads, '_filename' and 'filename'
Infos ==
  {NoInfo} \cup
  [isdict : {TRUE},
   requested_downloads : {<<>>, <<[filepath |-> <<>>]>>, <<[filepath |-> FILEPATH]>>},
   filename1 : {<<>>, FILENAME},
   filename2 : {<<>>}]
  \cup
  [isdict : {TRUE},
   requested_downloads : {<<>>, <<[filepath |-> <<>>]>>, <<[filepath |-> FILEPATH]>>},
   filename1 : {<<>>},
   filename2 : {FILENAME}]

\* lines 201-207 with pop() for pop(0): the newest entry is dropped
HookedDropsNewest(buffer, d) ==
  LET appended == Append(buffer, d)
  IN IF Len(appended) > HookCap THEN SubSeq(appended, 1, Len(appended) - 1) ELSE appended

\* progress_hook: lines 201-207
Hooked(buffer, d) ==
  LET appended == Append(buffer, d)
  IN IF Len(appended) > HookCap THEN Tail(appended) ELSE appended

\* lines 224-225 with the context left empty
PrimaryContextDropped(e, buffer) == NoContext

\* the text of lines 224-225
PrimaryContext(e, buffer) == [err |-> e, tb |-> e, dbg |-> LastN(buffer, PrimaryTail)]

\* the text of lines 233-239
FullError(primary, e2, buffer) ==
  [kind |-> "full_err",
   primary |-> primary,
   retry |-> [err |-> e2, tb |-> e2, dbg |-> LastN(buffer, RetryTail)]]

\* the text of lines 271-272
OuterError(e) ==
  [kind |-> "err_msg", primary |-> NoContext, retry |-> [err |-> e, tb |-> e, dbg |-> <<>>]]

\* lines 265-268 without the check that the path exists
CompleteArgumentUnchecked(path, found) ==
  IF path # <<>> THEN [kind |-> "path", path |-> path]
  ELSE [kind |-> "finished", path |-> <<>>]

\* the argument of download_complete: lines 265-268
CompleteArgument(path, found) ==
  IF path # <<>> /\ found THEN [kind |-> "path", path |-> path]
  ELSE [kind |-> "finished", path |-> <<>>]

\* lines 247-254 with '_filename' looked up before requested_downloads
NamedPathFilenameFirst(i) ==
  IF ~i.isdict THEN <<>>
  ELSE LET rd == i.requested_downloads
           first == IF Len(rd) > 0 THEN rd[1].filepath ELSE <<>>
       IN IF i.filename1 # <<>> THEN i.filename1
          ELSE IF i.filename2 # <<>> THEN i.filename2 ELSE first

\* lines 247-254: the first candidate the result names
NamedPath(i) ==
  IF ~i.isdict THEN <<>>
  ELSE LET rd == i.requested_downloads
           first == IF Len(rd) > 0 THEN rd[1].filepath ELSE <<>>
       IN IF first # <<>> THEN first
          ELSE IF i.filename1 # <<>> THEN i.filename1 ELSE i.filename2

(***************************************************************************)
(* The inputs of a run.                                                    *)
(***************************************************************************)
\* the cookies file that exists, and one that does not
COOKIES_OK == <<"/", "c">>

COOKIES_MISSING == <<"/", "x">>

\* the filesystems of the model: /opt is a directory or absent; in it ffmpeg,
\* ffprobe and a third file are absent, executable or not executable
Filesystems ==
  {[at |-> [p \in FsPaths |->
              IF p = ROOT THEN "dir"
              ELSE IF p = OPT THEN opt
              ELSE IF opt # "dir" THEN "none"
              ELSE IF p = Join(OPT, "ffmpeg") THEN k1
              ELSE IF p = Join(OPT, "ffprobe") THEN k2
              ELSE IF p = Join(OPT, "tool") THEN k3
              ELSE "none"],
    on_path |-> op,
    files |-> {COOKIES_OK}] :
     opt \in {"dir", "none"}, k1 \in {"none", "exec", "file"},
     k2 \in {"none", "exec", "file"}, k3 \in {"none", "exec", "file"},
     op \in SUBSET {"ffmpeg", "ffprobe"}}

\* the filesystems a run of the model starts in
RunFilesystems ==
  {f \in Filesystems :
     /\ f.at[OPT] = "dir"
     /\ f.at[Join(OPT, "ffmpeg")] # "file"
     /\ f.at[Join(OPT, "ffprobe")] # "file"
     /\ f.at[Join(OPT, "tool")] = "exec"
     /\ f.on_path # {"ffprobe"}}

\* the configured tool paths: "", "ffmpeg", a directory, files, a path with no parent
ToolPaths ==
  {[pad |-> FALSE, comps |-> <<>>],
   [pad |-> TRUE, comps |-> <<>>],
   [pad |-> FALSE, comps |-> <<"ffmpeg">>],
   [pad |-> FALSE, comps |-> <<"FFmpeg">>],
   [pad |-> TRUE, comps |-> <<"ffmpeg">>],
   [pad |-> FALSE, comps |-> <<"tool">>],
   [pad |-> FALSE, comps |-> OPT],
   [pad |-> FALSE, comps |-> Join(OPT, "ffmpeg")],
   [pad |-> FALSE, comps |-> Join(OPT, "tool")],
   [pad |-> TRUE, comps |-> Join(OPT, "tool")],
   [pad |-> FALSE, comps |-> <<"/", "nodir", "ffmpeg">>]}

\* the tool paths a run of the model is given
RunToolPaths ==
  {[pad |-> FALSE, comps |-> <<"ffmpeg">>],
   [pad |-> FALSE, comps |-> OPT],
   [pad |-> FALSE, comps |-> Join(OPT, "tool")],
   [pad |-> FALSE, comps |-> <<"/", "nodir", "ffmpeg">>]}

\* "https://Instagram.com/p" and "https://a.b/"
RunUrls ==
  {HTTPS \o <<"I">> \o Tail(INSTAGRAM) \o <<"/", "p">>,
   HTTPS \o <<"a", ".", "b", "/">>}

\* no explicit filename, and " ../a:b "
RunManualFilenames == {<<>>, <<" ", ".", ".", "/", "a", ":", "b", " ">>}

\* "%(id)s.%(ext)s"
RunTemplates == {<<"%", "(", "i", "d", ")", "s", ".">> \o EXT}

\* the destination directories: "/d", and a configuration value that is no string
RunDirectories == {<<"/", "d">>, NONE}

\* the worker objects of the model: __init__, lines 137-145
Workers ==
  [video_url : RunUrls,
   ffmpeg_path : RunToolPaths,
   directory : RunDirectories,
   filename_template : RunTemplates,
   manual_filename : RunManualFilenames,
   cookies_file : {<<>>, COOKIES_OK, COOKIES_MISSING},
   referer : {NONE}]

\* the state of a worker whose run has not started
InitRun ==
  /\ pc = "prepare"
  /\ outtmpl = <<>>
  /\ ydl_opts = NoOptions
  /\ debug_messages = <<>>
  /\ hooked = 0
  /\ primary_err = NoContext
  /\ info = NoInfo
  /\ saved_path = <<>>
  /\ raised = NoErr
  /\ calls = <<>>
  /\ attempts = <<>>
  /\ emitted = <<>>

\* no call of is_supported_url is in progress
NoSiteCheck == [url |-> <<>>, supported_sites |-> <<>>, result |-> "none"]

\* no hub is part of the run
NoHub ==
  /\ hub = [config |-> "none", enabled |-> FALSE, text |-> "", dialog |-> "none"]
  /\ started = 0
  /\ received = <<>>

\* no fetcher is constructed
NoFetcher == fetcher = [video_url |-> <<>>, pc |-> "none"]

\* no call of ffmpeg_available or ffprobe_available is in progress
NoToolCheck ==
  [ffmpeg_path |-> [pad |-> FALSE, comps |-> <<>>], ffmpeg |-> "none", ffprobe |-> "none"]

Init ==
  /\ worker \in Workers
  /\ fs \in RunFilesystems
  /\ InitRun
  /\ site_check = NoSiteCheck
  /\ tool_check = NoToolCheck
  /\ NoHub
  /\ NoFetcher

(***************************************************************************)
(* The steps of run.  An exception raised inside the outer try goes to     *)
(* the handler of line 270 through pc = "outer_except".                    *)
(***************************************************************************)
\* no handler at line 270: the exception leaves run
NoOuterHandler == "escaped"

\* where an exception raised inside the outer try goes: line 270
OuterHandler == "outer_except"

Raise(e) ==
  /\ raised' = e
  /\ pc' = OuterHandler

Emit(signal, arg) == emitted' = Append(emitted, [signal |-> signal, arg |-> arg])

\* lines 149-165
Prepare ==
  /\ pc = "prepare"
  /\ IF PrepareRaises(worker)
     THEN Raise(PrepareError) /\ UNCHANGED outtmpl
     ELSE /\ outtmpl' = Outtmpl(worker)
          /\ pc' = "cookies"
          /\ UNCHANGED raised
  /\ UNCHANGED <<others, attempts, worker, fs, ydl_opts, debug_messages, hooked, primary_err, info,
                 saved_path, calls, emitted>>

\* lines 167-172 without the else branch: a missing cookies file is passed on
CheckCookiesNoRaise ==
  /\ pc = "cookies"
  /\ pc' = "options"
  /\ UNCHANGED <<others, attempts, worker, fs, outtmpl, ydl_opts, debug_messages, hooked, primary_err,
                 info, saved_path, raised, calls, emitted>>

\* lines 167-172
CheckCookies ==
  /\ pc = "cookies"
  /\ IF worker.cookies_file # <<>> /\ worker.cookies_file \notin fs.files
     THEN Raise(CookiesNotFound)
     ELSE pc' = "options" /\ UNCHANGED raised
  /\ UNCHANGED <<others, attempts, worker, fs, outtmpl, ydl_opts, debug_messages, hooked, primary_err,
                 info, saved_path, calls, emitted>>

\* lines 174-210
BuildOptions ==
  /\ pc = "options"
  /\ ydl_opts' = PrimaryOptions(worker, fs, outtmpl)
  /\ pc' = "tools"
  /\ UNCHANGED <<others, attempts, worker, fs, outtmpl, debug_messages, hooked, primary_err, info,
                 saved_path, raised, calls, emitted>>

\* lines 212-216 without the check of ffprobe
CheckToolsFfmpegOnly ==
  /\ pc = "tools"
  /\ IF ~ffmpeg_available(fs, worker.ffmpeg_path) THEN Raise(FfmpegNotFound)
     ELSE pc' = "primary_start" /\ UNCHANGED raised
  /\ UNCHANGED <<others, attempts, worker, fs, outtmpl, ydl_opts, debug_messages, hooked, primary_err,
                 info, saved_path, calls, emitted>>

\* lines 212-216
CheckTools ==
  /\ pc = "tools"
  /\ IF ~ffmpeg_available(fs, worker.ffmpeg_path) THEN Raise(FfmpegNotFound)
     ELSE IF ~ffprobe_available(fs, worker.ffmpeg_path) THEN Raise(FfprobeNotFound)
     ELSE pc' = "primary_start" /\ UNCHANGED raised
  /\ UNCHANGED <<others, attempts, worker, fs, outtmpl, ydl_opts, debug_messages, hooked, primary_err,
                 info, saved_path, calls, emitted>>

\* YoutubeDL(opts) and a call of extract_info(video_url, download=True) on it
DownloadCall(opts) ==
  [op |-> "extract_info", url |-> worker.video_url, download |-> TRUE, opts |-> opts]

\* lines 219-221: the primary attempt starts
StartPrimary ==
  /\ pc = "primary_start"
  /\ calls' = Append(calls, DownloadCall(ydl_opts))
  /\ pc' = "primary"
  /\ UNCHANGED <<others, attempts, worker, fs, outtmpl, ydl_opts, debug_messages, hooked, primary_err,
                 info, saved_path, raised, emitted>>

\* lines 201-207: the extractor delivers a progress event during an attempt
Hook(limit) ==
  /\ pc \in {"primary", "retry"}
  /\ hooked < limit
  /\ hooked' = hooked + 1
  /\ debug_messages' = Hooked(debug_messages, hooked + 1)
  /\ UNCHANGED <<others, attempts, worker, fs, pc, outtmpl, ydl_opts, primary_err, info, saved_path,
                 raised, calls, emitted>>

ProgressHook == Hook(MaxEvents)

\* lines 221 and 231: extract_info returns, having written some of the files
Returns(infos, written) ==
  /\ pc \in {"primary", "retry"}
  /\ \E i \in infos, files \in written :
       /\ info' = i
       /\ fs' = [fs EXCEPT !.files = @ \cup files]
  /\ attempts' = Append(attempts, [result |-> "returned", err |-> NoErr, events |-> hooked])
  /\ pc' = "resolve"
  /\ UNCHANGED <<others, worker, outtmpl, ydl_opts, debug_messages, hooked, primary_err,
                 saved_path, raised, calls, emitted>>

\* the files an attempt may have written
WrittenFiles == SUBSET {FILENAME, FILEPATH, PREPARED}

AttemptReturns == Returns(Infos, WrittenFiles)

\* lines 222-225: the primary attempt raises
PrimaryRaises ==
  /\ pc = "primary"
  /\ \E e \in ExtractorErrors :
       /\ primary_err' = PrimaryContext(e, debug_messages)
       /\ attempts' = Append(attempts, [result |-> "raised", err |-> e, events |-> hooked])
  /\ pc' = "retry_start"
  /\ UNCHANGED <<others, worker, fs, outtmpl, ydl_opts, debug_messages, hooked, info,
                 saved_path, raised, calls, emitted>>

\* lines 227-231: the retry starts
StartRetry ==
  /\ pc = "retry_start"
  /\ calls' = Append(calls, DownloadCall(RetryOptions(ydl_opts)))
  /\ pc' = "retry"
  /\ UNCHANGED <<others, attempts, worker, fs, outtmpl, ydl_opts, debug_messages, hooked, primary_err,
                 info, saved_path, raised, emitted>>

\* line 242 without its return: run goes on to resolve the saved path
AfterFullErrorFallsThrough == "resolve"

\* where run goes after line 241
AfterFullError == "done"

\* lines 232-242: the retry raises
RetryRaises ==
  /\ pc = "retry"
  /\ \E e2 \in ExtractorErrors :
       /\ Emit("download_error", FullError(primary_err, e2, debug_messages))
       /\ attempts' = Append(attempts, [result |-> "raised", err |-> e2, events |-> hooked])
  /\ pc' = AfterFullError
  /\ UNCHANGED <<others, worker, fs, outtmpl, ydl_opts, debug_messages, hooked, primary_err,
                 info, saved_path, raised, calls>>

\* lines 258-263: prepare_filename gives a name, or raises and leaves None
PreparedPaths == {<<>>, PREPARED}

\* lines 244-263: the saved path is resolved
Resolve ==
  /\ pc = "resolve"
  /\ IF NamedPath(info) # <<>>
     THEN /\ saved_path' = NamedPath(info)
          /\ UNCHANGED calls
     ELSE /\ calls' = Append(calls, [op |-> "prepare_filename", url |-> <<>>,
                                     download |-> FALSE, opts |-> TmpOptions(outtmpl)])
          /\ IF info.isdict
             THEN saved_path' \in PreparedPaths
             ELSE saved_path' = <<>>
  /\ pc' = "emit"
  /\ UNCHANGED <<others, attempts, worker, fs, outtmpl, ydl_opts, debug_messages, hooked, primary_err,
                 info, raised, emitted>>

\* lines 265-268
EmitComplete ==
  /\ pc = "emit"
  /\ Emit("download_complete", CompleteArgument(saved_path, saved_path \in fs.files))
  /\ pc' = "done"
  /\ UNCHANGED <<others, attempts, worker, fs, outtmpl, ydl_opts, debug_messages, hooked, primary_err,
                 info, saved_path, raised, calls>>

\* lines 270-274
OuterExcept ==
  /\ pc = "outer_except"
  /\ Emit("download_error", OuterError(raised))
  /\ pc' = "done"
  /\ UNCHANGED <<others, attempts, worker, fs, outtmpl, ydl_opts, debug_messages, hooked, primary_err,
                 info, saved_path, raised, calls>>

Next ==
  \/ Prepare
  \/ CheckCookies
  \/ BuildOptions
  \/ CheckTools
  \/ StartPrimary
  \/ ProgressHook
  \/ AttemptReturns
  \/ PrimaryRaises
  \/ StartRetry
  \/ RetryRaises
  \/ Resolve
  \/ EmitComplete
  \/ OuterExcept

Spec == Init /\ [][Next]_vars

(***************************************************************************)
(* The runs that fill the diagnostic buffer: one worker whose checks pass, *)
(* and an extractor that delivers up to MaxDiagEvents progress events.     *)
(***************************************************************************)
DiagWorker ==
  [video_url |-> HTTPS \o <<"a", ".", "b", "/">>,
   ffmpeg_path |-> [pad |-> FALSE, comps |-> <<"ffmpeg">>],
   directory |-> <<"/", "d">>,
   filename_template |-> <<"%", "(", "i", "d", ")", "s", ".">> \o EXT,
   manual_filename |-> <<>>,
   cookies_file |-> <<>>,
   referer |-> NONE]

InitDiag ==
  /\ worker = DiagWorker
  /\ fs \in {f \in RunFilesystems :
               /\ f.on_path = {"ffmpeg", "ffprobe"}
               /\ f.at[Join(OPT, "ffmpeg")] = "none"
               /\ f.at[Join(OPT, "ffprobe")] = "none"}
  /\ InitRun
  /\ site_check = NoSiteCheck
  /\ tool_check = NoToolCheck
  /\ NoHub
  /\ NoFetcher

DiagProgressHook == Hook(MaxDiagEvents)

DiagReturns == Returns({[NoInfo EXCEPT !.isdict = TRUE]}, {{PREPARED}})

NextDiag ==
  \/ Prepare
  \/ CheckCookies
  \/ BuildOptions
  \/ CheckTools
  \/ StartPrimary
  \/ DiagProgressHook
  \/ DiagReturns
  \/ PrimaryRaises
  \/ StartRetry
  \/ RetryRaises
  \/ Resolve
  \/ EmitComplete

SpecDiag == InitDiag /\ [][NextDiag]_vars

(***************************************************************************)
(* The calls of is_supported_url: a url and an allow-list are drawn, and   *)
(* the function is applied to them.                                        *)
(***************************************************************************)
\* nothing, "https://", "HTTP://", "ftp://", a blank, "//"
UrlPrefixes ==
  {<<>>, HTTPS, <<"H", "T", "T", "P", ":", "/", "/">>, <<"f", "t", "p", ":", "/", "/">>,
   <<" ">>, <<"/", "/">>}

\* nothing, "a.b", "A.b", "xa.bx", "b", "[a", "[::1]", "a b", " a.b", "u@a.b:8"
UrlHosts ==
  {<<>>, <<"a", ".", "b">>, <<"A", ".", "b">>, <<"x", "a", ".", "b", "x">>, <<"b">>,
   <<"[", "a">>, <<"[", ":", ":", "1", "]">>, <<"a", " ", "b">>, <<" ", "a", ".", "b">>,
   <<"u", "@", "a", ".", "b", ":", "8">>}

\* nothing, "/a.b", "?a", "#", a blank
UrlSuffixes == {<<>>, <<"/", "a", ".", "b">>, <<"?", "a">>, <<"#">>, <<" ">>}

UrlInputs == {pre \o host \o suf : pre \in UrlPrefixes, host \in UrlHosts, suf \in UrlSuffixes}

\* "", "a.b", " A.B ", "https://a.b/x", "b", " ", "//a.b", "[", "c.d", "http://[a",
\* "a.b/x", None and a number
SiteEntries ==
  {<<>>, <<"a", ".", "b">>, <<" ", "A", ".", "B", " ">>,
   HTTPS \o <<"a", ".", "b", "/", "x">>, <<"b">>, <<" ">>, <<"/", "/", "a", ".", "b">>,
   <<"[">>, <<"c", ".", "d">>, HTTP \o <<"[", "a">>, <<"a", ".", "b", "/", "x">>,
   NONE, NONSTR}

\* the lists of at most n entries
RECURSIVE SiteLists(_)
SiteLists(n) ==
  IF n = 0 THEN {<<>>}
  ELSE SiteLists(n - 1) \cup
       {Append(l, e) : l \in {x \in SiteLists(n - 1) : Len(x) = n - 1}, e \in SiteEntries}

InitUrl ==
  /\ worker = DiagWorker
  /\ fs \in {f \in RunFilesystems :
               /\ f.on_path = {"ffmpeg", "ffprobe"}
               /\ f.at[Join(OPT, "ffmpeg")] = "none"
               /\ f.at[Join(OPT, "ffprobe")] = "none"}
  /\ InitRun
  /\ site_check \in [url : UrlInputs, supported_sites : SiteLists(MaxSites), result : {"pending"}]
  /\ tool_check = NoToolCheck
  /\ NoHub
  /\ NoFetcher

\* a call of is_supported_url: lines 38-63
CheckUrl ==
  /\ site_check.result = "pending"
  /\ site_check' =
       [site_check EXCEPT !.result =
          is_supported_url(site_check.url, site_check.supported_sites)]
  /\ UNCHANGED <<runvars, tool_check, hubvars, fetcher>>

NextUrl == CheckUrl

SpecUrl == InitUrl /\ [][NextUrl]_vars

(***************************************************************************)
(* The calls of ffmpeg_available and ffprobe_available: a filesystem and a *)
(* configured path are drawn, and the two functions are applied to them.   *)
(***************************************************************************)
InitTools ==
  /\ worker = DiagWorker
  /\ fs \in Filesystems
  /\ InitRun
  /\ site_check = NoSiteCheck
  /\ tool_check \in [ffmpeg_path : ToolPaths, ffmpeg : {"pending"}, ffprobe : {"pending"}]
  /\ NoHub
  /\ NoFetcher

\* the boolean a function returns
Bool(b) == IF b THEN "True" ELSE "False"

\* a call of ffmpeg_available: lines 65-89
CheckFfmpeg ==
  /\ tool_check.ffmpeg = "pending"
  /\ tool_check' =
       [tool_check EXCEPT !.ffmpeg = Bool(ffmpeg_available(fs, tool_check.ffmpeg_path))]
  /\ UNCHANGED <<runvars, site_check, hubvars, fetcher>>

\* a call of ffprobe_available: lines 91-112
CheckFfprobe ==
  /\ tool_check.ffprobe = "pending"
  /\ tool_check' =
       [tool_check EXCEPT !.ffprobe = Bool(ffprobe_available(fs, tool_check.ffmpeg_path))]
  /\ UNCHANGED <<runvars, site_check, hubvars, fetcher>>

NextTools == CheckFfmpeg \/ CheckFfprobe

SpecTools == InitTools /\ [][NextTools]_vars

(***************************************************************************)
(* MainHub: lines 382-512.  The hub starts a DownloadWorker on a click of  *)
(* its Download button and receives the worker's signal in a slot; the     *)
(* signal of a worker thread is queued and the slot runs later, on the     *)
(* hub's thread.  Each handler is one step: the message boxes it opens are *)
(* modal.  In these runs the extractor delivers no progress events.        *)
(***************************************************************************)
\* the clicks of the Download button that a run of the hub follows
MaxJobs == 2

\* what the configuration file may hold: the default configuration, and one
\* with a tool directory, another destination, a template without extension
\* and a cookies file
ConfigA ==
  [ffmpeg_path |-> [pad |-> FALSE, comps |-> <<"ffmpeg">>],
   save_directory |-> <<"/", "d">>,
   filename_template |-> <<"%", "(", "i", "d", ")", "s", ".">> \o EXT,
   supported_sites |-> << <<"a", ".", "b">> >>,
   cookies_file |-> <<>>]

ConfigB ==
  [ffmpeg_path |-> [pad |-> FALSE, comps |-> OPT],
   save_directory |-> <<"/", "e">>,
   filename_template |-> <<"%", "(", "i", "d", ")", "s">>,
   supported_sites |-> <<>>,
   cookies_file |-> COOKIES_OK]

ConfigFiles == {ConfigA, ConfigB}

\* load_config: lines 390-403
load_config(h, config) ==
  [h EXCEPT !.config = config,
            !.ffmpeg_path = config.ffmpeg_path,
            !.save_directory = config.save_directory,
            !.supported_sites = config.supported_sites,
            !.filename_template = config.filename_template,
            !.cookies_file = config.cookies_file]

\* the hub after __init__: lines 383-388 and 418-420
NewHub ==
  [config |-> ConfigA,
   ffmpeg_path |-> ConfigA.ffmpeg_path,
   save_directory |-> ConfigA.save_directory,
   supported_sites |-> ConfigA.supported_sites,
   filename_template |-> ConfigA.filename_template,
   cookies_file |-> ConfigA.cookies_file,
   enabled |-> TRUE,
   text |-> "Download",
   dialog |-> "none"]

\* the filesystem of the hub's runs: ffmpeg and ffprobe on the search path,
\* /opt a directory without them
HubFilesystems ==
  {f \in RunFilesystems :
     /\ f.on_path = {"ffmpeg", "ffprobe"}
     /\ f.at[Join(OPT, "ffmpeg")] = "none"
     /\ f.at[Join(OPT, "ffprobe")] = "none"}

InitHub ==
  /\ hub \in {load_config(NewHub, config) : config \in ConfigFiles}
  /\ started = 0
  /\ received = <<>>
  /\ worker = DiagWorker
  /\ fs \in HubFilesystems
  /\ pc = "idle"
  /\ outtmpl = <<>>
  /\ ydl_opts = NoOptions
  /\ debug_messages = <<>>
  /\ hooked = 0
  /\ primary_err = NoContext
  /\ info = NoInfo
  /\ saved_path = <<>>
  /\ raised = NoErr
  /\ calls = <<>>
  /\ attempts = <<>>
  /\ emitted = <<>>
  /\ site_check = NoSiteCheck
  /\ tool_check = NoToolCheck
  /\ NoFetcher

\* the texts of the url field: "", " ", "https://a.b/" and " c.d/x "
UrlTexts ==
  {<<>>, <<" ">>, HTTPS \o <<"a", ".", "b", "/">>, <<" ", "c", ".", "d", "/", "x", " ">>}

\* the texts of the filename field: "" and " n "
FilenameTexts == {<<>>, <<" ", "n", " ">>}

\* the answers to a question box
Choices == {"Yes", "No"}

\* line 468 left out: the button stays enabled
LeftEnabledWhileDownloading == TRUE

\* line 468: setEnabled(False)
DisabledWhileDownloading == FALSE

\* lines 470-480: the worker is constructed, connected and started
StartWorker(w) ==
  /\ worker' = w
  /\ started' = started + 1
  /\ pc' = "prepare"
  /\ outtmpl' = <<>>
  /\ ydl_opts' = NoOptions
  /\ debug_messages' = <<>>
  /\ hooked' = 0
  /\ primary_err' = NoContext
  /\ info' = NoInfo
  /\ saved_path' = <<>>
  /\ raised' = NoErr
  /\ calls' = <<>>
  /\ attempts' = <<>>
  /\ emitted' = <<>>

\* the condition of line 460: not is_supported_url(video_url, self.supported_sites)
UnknownSite(video_url, supported_sites) == is_supported_url(video_url, supported_sites) # "True"

\* on_download_clicked: lines 454-480; only an enabled button is clicked
OnDownloadClicked ==
  /\ hub.enabled
  /\ started < MaxJobs
  /\ \E url \in UrlTexts, name \in FilenameTexts, choice \in Choices :
       LET video_url == Strip(url)
           manual_filename == Strip(name)
       IN IF video_url = <<>>
          THEN /\ hub' = [hub EXCEPT !.dialog = "Warning"]
               /\ UNCHANGED <<runvars, started>>
          ELSE IF UnknownSite(video_url, hub.supported_sites) /\ choice # "Yes"
          THEN /\ hub' = [hub EXCEPT !.dialog = "Unknown site"]
               /\ UNCHANGED <<runvars, started>>
          ELSE /\ hub' = [hub EXCEPT !.enabled = DisabledWhileDownloading,
                                     !.text = "Downloading..."]
               /\ StartWorker([video_url |-> video_url,
                               ffmpeg_path |-> hub.ffmpeg_path,
                               directory |-> hub.save_directory,
                               filename_template |-> hub.filename_template,
                               manual_filename |-> manual_filename,
                               cookies_file |-> hub.cookies_file,
                               referer |-> NONE])
               /\ UNCHANGED fs
  /\ UNCHANGED <<site_check, tool_check, received, fetcher>>

\* download_finished: lines 482-496, the slot of download_complete
DownloadFinished ==
  /\ Len(received) < started
  /\ emitted # <<>>
  /\ emitted[1].signal = "download_complete"
  /\ received' = Append(received, emitted[1].signal)
  /\ hub' = [hub EXCEPT !.enabled = TRUE,
                        !.text = "Download",
                        !.dialog = IF emitted[1].arg.kind = "path" /\ emitted[1].arg.path \in fs.files
                                   THEN "Download Complete" ELSE "Download"]
  /\ UNCHANGED <<runvars, site_check, tool_check, started, fetcher>>

\* download_failed: lines 498-501, the slot of download_error
DownloadFailed ==
  /\ Len(received) < started
  /\ emitted # <<>>
  /\ emitted[1].signal = "download_error"
  /\ received' = Append(received, emitted[1].signal)
  /\ hub' = [hub EXCEPT !.enabled = TRUE, !.text = "Download", !.dialog = "Download Failed"]
  /\ UNCHANGED <<runvars, site_check, tool_check, started, fetcher>>

\* the directories the user may pick; <<>> when the dialog is cancelled
PickedDirectories == {<<>>, <<"/", "d">>, <<"/", "e">>}

\* select_directory with the worker holding the hub's field, not its value
SelectDirectoryShared ==
  /\ \E directory \in PickedDirectories :
       IF directory # <<>>
       THEN /\ hub' = [hub EXCEPT !.save_directory = directory]
            /\ worker' = [worker EXCEPT !.directory = directory]
       ELSE UNCHANGED <<hub, worker>>
  /\ UNCHANGED <<fs, pc, outtmpl, ydl_opts, debug_messages, hooked, primary_err, info,
                 saved_path, raised, calls, attempts, emitted, site_check, tool_check,
                 started, received, fetcher>>

\* select_directory: lines 448-452
SelectDirectory ==
  /\ \E directory \in PickedDirectories :
       hub' = IF directory # <<>> THEN [hub EXCEPT !.save_directory = directory] ELSE hub
  /\ UNCHANGED <<runvars, site_check, tool_check, started, received, fetcher>>

\* open_config_dialog: lines 507-512; when the dialog is accepted the file is
\* written (or, on IOError, left as it was) and read again
OpenConfigDialog ==
  /\ \E accepted \in BOOLEAN, written \in BOOLEAN, config \in ConfigFiles :
       hub' = IF accepted
              THEN load_config(hub, IF written THEN config ELSE hub.config)
              ELSE hub
  /\ UNCHANGED <<runvars, site_check, tool_check, started, received, fetcher>>

\* what extract_info returns in the hub's runs, and the files it has written
HubInfos == {[NoInfo EXCEPT !.isdict = TRUE, !.requested_downloads = <<[filepath |-> FILEPATH]>>]}

HubWritten == {{}, {FILEPATH}}

HubReturns == Returns(HubInfos, HubWritten)

NextHub ==
  \/ OnDownloadClicked
  \/ DownloadFinished
  \/ DownloadFailed
  \/ SelectDirectory
  \/ OpenConfigDialog
  \/ Prepare
  \/ CheckCookies
  \/ BuildOptions
  \/ CheckTools
  \/ StartPrimary
  \/ HubReturns
  \/ PrimaryRaises
  \/ StartRetry
  \/ RetryRaises
  \/ Resolve
  \/ EmitComplete
  \/ OuterExcept

SpecHub == InitHub /\ [][NextHub]_vars

(***************************************************************************)
(* The runs that build the output template and the options: run up to the  *)
(* construction of the first extractor, for more urls, explicit filenames, *)
(* templates and directories than the runs above.                          *)
(***************************************************************************)
\* "/instagram.com"
INSTAGRAM_PATH == <<"/">> \o INSTAGRAM

\* "https://Instagram.com/p", "https://a.b/", "https://a.b/instagram.com",
\* "https://a.b/?u=instagram.com", "https://www.instagram.com", "instagram.com/p"
OptionUrls ==
  {HTTPS \o <<"I">> \o Tail(INSTAGRAM) \o <<"/", "p">>,
   HTTPS \o <<"a", ".", "b", "/">>,
   HTTPS \o <<"a", ".", "b">> \o INSTAGRAM_PATH,
   HTTPS \o <<"a", ".", "b", "/", "?", "u", "=">> \o INSTAGRAM,
   HTTPS \o <<"w", "w", "w", ".">> \o INSTAGRAM,
   INSTAGRAM \o <<"/", "p">>}

\* no explicit filename, " ../a:b ", "a/", "n.%(ext)s", "%(ext)s/a", "a\tb?",
\* "  " and "x<>|*\"\\y"
OptionFilenames ==
  {<<>>,
   <<" ", ".", ".", "/", "a", ":", "b", " ">>,
   <<"a", "/">>,
   <<"n", ".">> \o EXT,
   EXT \o <<"/", "a">>,
   <<"a", "\t", "b", "?">>,
   <<" ", " ">>,
   <<"x", "<", ">", "|", "*", "\"", "\\", "y">>}

\* "%(id)s.%(ext)s" and "%(id)s"
OptionTemplates ==
  {<<"%", "(", "i", "d", ")", "s", ".">> \o EXT, <<"%", "(", "i", "d", ")", "s">>}

\* "/d", "/d/", "" and a value that is no string
OptionDirectories == {<<"/", "d">>, <<"/", "d", "/">>, <<>>, NONE}

OptionWorkers ==
  [video_url : OptionUrls,
   ffmpeg_path : {[pad |-> FALSE, comps |-> <<"ffmpeg">>]},
   directory : OptionDirectories,
   filename_template : OptionTemplates,
   manual_filename : OptionFilenames,
   cookies_file : {<<>>},
   referer : {NONE}]

InitOptions ==
  /\ worker \in OptionWorkers
  /\ fs \in HubFilesystems
  /\ InitRun
  /\ site_check = NoSiteCheck
  /\ tool_check = NoToolCheck
  /\ NoHub
  /\ NoFetcher

NextOptions ==
  \/ Prepare
  \/ CheckCookies
  \/ BuildOptions
  \/ CheckTools
  \/ StartPrimary
  \/ OuterExcept

SpecOptions == InitOptions /\ [][NextOptions]_vars

(***************************************************************************)
(* VideoInfoFetcher.run: lines 122-130.  The signal info_fetched is        *)
(* declared pyqtSignal(dict): emit checks that its argument is a dict and  *)
(* raises TypeError when it is not.                                        *)
(***************************************************************************)
\* info = {}: line 124
EmptyInfo == [isdict |-> TRUE, title |-> "", error |-> ""]

\* a result of extract_info that is no dict (None)
NoneInfo == [isdict |-> FALSE, title |-> "", error |-> ""]

\* what extract_info(video_url, download=False) may return
FetchResults == {[EmptyInfo EXCEPT !.title = "a title"], EmptyInfo, NoneInfo}

\* what emit raises for an argument of another type than the declared one
EmitTypeError == [type |-> "TypeError", msg |-> "argument 1 has unexpected type"]

\* a fetcher constructed for a url: lines 118-120
NewFetcher(video_url) ==
  [video_url |-> video_url, pc |-> "start", info |-> EmptyInfo, result |-> "none",
   returned |-> EmptyInfo, calls |-> <<>>, emitted |-> <<>>, escaped |-> NoErr]

InitFetch ==
  /\ worker = DiagWorker
  /\ fs \in HubFilesystems
  /\ InitRun
  /\ site_check = NoSiteCheck
  /\ tool_check = NoToolCheck
  /\ NoHub
  /\ fetcher \in {NewFetcher(video_url) : video_url \in UrlInputs}

\* lines 123-127: YoutubeDL({}) is constructed and extract_info is called
FetcherCall ==
  /\ fetcher.pc = "start"
  /\ fetcher' =
       [fetcher EXCEPT !.pc = "call",
                       !.calls = Append(@, [op |-> "extract_info", url |-> fetcher.video_url,
                                            download |-> FALSE, opts |-> NoOptions])]
  /\ UNCHANGED <<runvars, site_check, tool_check, hubvars>>

\* line 127: extract_info returns and its result is assigned to info
FetcherReturns ==
  /\ fetcher.pc = "call"
  /\ \E i \in FetchResults :
       fetcher' = [fetcher EXCEPT !.pc = "emit", !.info = i, !.result = "returned",
                                  !.returned = i]
  /\ UNCHANGED <<runvars, site_check, tool_check, hubvars>>

\* lines 128-129: extract_info raises and the error text is put into info
FetcherRaises ==
  /\ fetcher.pc = "call"
  /\ \E e \in ExtractorErrors :
       fetcher' = [fetcher EXCEPT !.pc = "emit", !.info = [@ EXCEPT !.error = e.msg],
                                  !.result = "raised"]
  /\ UNCHANGED <<runvars, site_check, tool_check, hubvars>>

\* line 130: info_fetched.emit(info), outside the try
FetcherEmit ==
  /\ fetcher.pc = "emit"
  /\ fetcher' =
       IF fetcher.info.isdict
       THEN [fetcher EXCEPT !.pc = "done", !.emitted = Append(@, fetcher.info)]
       ELSE [fetcher EXCEPT !.pc = "done", !.escaped = EmitTypeError]
  /\ UNCHANGED <<runvars, site_check, tool_check, hubvars>>

NextFetch ==
  \/ FetcherCall
  \/ FetcherReturns
  \/ FetcherRaises
  \/ FetcherEmit

SpecFetch == InitFetch /\ [][NextFetch]_vars

(***************************************************************************)
(* What the claims speak of.                                               *)
(***************************************************************************)
\* the extractor calls that download
DownloadCalls == SelectSeq(calls, LAMBDA c : c.op = "extract_info" /\ c.download)

PrimaryRaised == Len(attempts) >= 1 /\ attempts[1].result = "raised"

PrimaryReturned == Len(attempts) >= 1 /\ attempts[1].result = "returned"

RetryRaised == Len(attempts) >= 2 /\ attempts[2].result = "raised"

RetryReturned == Len(attempts) >= 2 /\ attempts[2].result = "returned"

Failures == SelectSeq(emitted, LAMBDA m : m.signal = "download_error")

CookiesMissing == worker.cookies_file # <<>> /\ worker.cookies_file \notin fs.files

ToolMissing ==
  ~ffmpeg_available(fs, worker.ffmpeg_path) \/ ~ffprobe_available(fs, worker.ffmpeg_path)

\* the events a buffer holds after n deliveries, cut to its last k
LastEvents(n, k) == [i \in 1..Min(n, k) |-> n - Min(n, k) + i]

(***************************************************************************)
(* C1. In every run: the download calls are at most two; the first has the *)
(* format 'bestvideo+bestaudio/best'; a second call is made only after the *)
(* primary attempt raised, and it has the format 'best'; once the primary  *)
(* attempt has raised, no Failure is reported and no later step is taken   *)
(* before that second call is made; when the primary attempt returned, the *)
(* call stays the only one.                                                *)
(***************************************************************************)
C1_RetryExactlyOnce ==
  /\ Len(DownloadCalls) <= 2
  /\ Len(DownloadCalls) >= 1 => DownloadCalls[1].opts.format = "bestvideo+bestaudio/best"
  /\ Len(DownloadCalls) = 2 => PrimaryRaised /\ DownloadCalls[2].opts.format = "best"
  /\ PrimaryRaised /\ pc # "retry_start" => Len(DownloadCalls) = 2
  /\ PrimaryRaised /\ pc = "retry_start" => Len(DownloadCalls) = 1 /\ emitted = <<>>
  /\ PrimaryReturned => Len(DownloadCalls) = 1
  /\ Len(attempts) <= Len(DownloadCalls)

C1_Witness ==
  /\ pc = "done"
  /\ PrimaryRaised
  /\ RetryRaised
  /\ Len(Failures) = 1
  /\ Len(DownloadCalls) = 2

(***************************************************************************)
(* C2. In every run at most one outcome signal is emitted, and it is       *)
(* emitted only as the run ends: once a signal is emitted the run is at    *)
(* its end and no step of it (an extractor call, an assignment, another    *)
(* emission) can follow.                                                   *)
(***************************************************************************)
C2_OneOutcomeAtTheEnd ==
  /\ Len(emitted) <= 1
  /\ emitted # <<>> => pc = "done" /\ ~ENABLED Next

C2_Witness ==
  /\ pc = "done"
  /\ Len(emitted) = 1
  /\ emitted[1].signal = "download_error"
  /\ emitted[1].arg.kind = "full_err"

(***************************************************************************)
(* C3. Every run ends with an outcome delivered: as long as no signal is   *)
(* emitted the run has a next step (no exception leaves it), and at its    *)
(* end exactly one signal is emitted; an exception raised by filename      *)
(* preparation, the credential check or the tool checks ends in            *)
(* download_error carrying it, two failed attempts end in download_error,  *)
(* and a failure of path resolution ends in download_complete.             *)
(***************************************************************************)
C3_NothingEscapes ==
  /\ pc # "done" => ENABLED Next
  /\ pc = "done" => Len(emitted) = 1
  /\ pc = "done" /\ raised # NoErr =>
       /\ emitted[1].signal = "download_error"
       /\ emitted[1].arg.retry.err = raised
  /\ pc = "done" /\ RetryRaised => emitted[1].signal = "download_error"
  /\ pc = "done" /\ (PrimaryReturned \/ RetryReturned) =>
       emitted[1].signal = "download_complete"
  /\ PrepareRaises(worker) /\ pc # "prepare" => raised = PrepareError
  /\ ~PrepareRaises(worker) /\ CookiesMissing /\ pc \notin {"prepare", "cookies"} =>
       raised = CookiesNotFound

C3_Witness ==
  /\ pc = "done"
  /\ raised = PrepareError
  /\ emitted[1].signal = "download_error"

(***************************************************************************)
(* C4. When the cookies file path is non-empty and names no existing file, *)
(* no extractor is constructed or called in the run, the run never reaches *)
(* the tool checks or an attempt, and it ends in download_error, whatever  *)
(* the tool checks would have answered.                                    *)
(***************************************************************************)
C4_MissingCookiesFail ==
  CookiesMissing =>
    /\ calls = <<>>
    /\ attempts = <<>>
    /\ pc \in {"prepare", "cookies", "outer_except", "done"}
    /\ pc = "done" => Len(emitted) = 1 /\ emitted[1].signal = "download_error"

C4_Witness ==
  /\ CookiesMissing
  /\ ~ToolMissing
  /\ pc = "done"
  /\ emitted[1].signal = "download_error"
  /\ emitted[1].arg.retry.err = CookiesNotFound

(***************************************************************************)
(* C5 as stated: when ffmpeg_available or ffprobe_available is false for   *)
(* the configured path, the run ends in download_error with a tool-missing *)
(* message and makes no download call.                                     *)
(***************************************************************************)
C5_Original ==
  ToolMissing =>
    /\ DownloadCalls = <<>>
    /\ pc = "done" =>
         /\ emitted[1].signal = "download_error"
         /\ emitted[1].arg.retry.err \in {FfmpegNotFound, FfprobeNotFound}

(***************************************************************************)
(* C5 as amended: when ffmpeg_available or ffprobe_available is false for  *)
(* the configured path, the run makes no download call and ends in         *)
(* download_error; the message is the tool-missing one (ffmpeg's when      *)
(* ffmpeg is missing, else ffprobe's) when filename preparation and the    *)
(* credential check have passed, and the error of the earlier failing step *)
(* otherwise.                                                              *)
(***************************************************************************)
C5_ToolMissingFails ==
  ToolMissing =>
    /\ DownloadCalls = <<>>
    /\ attempts = <<>>
    /\ pc = "done" =>
         /\ Len(emitted) = 1
         /\ emitted[1].signal = "download_error"
         /\ emitted[1].arg.retry.err =
              IF PrepareRaises(worker) THEN PrepareError
              ELSE IF CookiesMissing THEN CookiesNotFound
              ELSE IF ~ffmpeg_available(fs, worker.ffmpeg_path) THEN FfmpegNotFound
              ELSE FfprobeNotFound

C5_Witness ==
  /\ pc = "done"
  /\ ~PrepareRaises(worker)
  /\ ~CookiesMissing
  /\ ffmpeg_available(fs, worker.ffmpeg_path)
  /\ ~ffprobe_available(fs, worker.ffmpeg_path)
  /\ emitted[1].arg.retry.err = FfprobeNotFound

\* the diagnostic context a delivered signal carries
DeliveredContext(m) == IF m.arg.kind = "full_err" THEN m.arg.primary ELSE NoContext

\* the candidates (a) and (b) of a result, in the order of lines 248-254
CandidateA == IF info.isdict /\ Len(info.requested_downloads) > 0
              THEN info.requested_downloads[1].filepath ELSE <<>>

CandidateB == IF ~info.isdict THEN <<>>
              ELSE IF info.filename1 # <<>> THEN info.filename1 ELSE info.filename2

(***************************************************************************)
(* C6 as stated: when the primary attempt raised and the retry returned,   *)
(* the outcome is delivered on download_complete and the diagnostic        *)
(* context of the primary failure is in the delivered outcome.             *)
(***************************************************************************)
C6_Original ==
  pc = "done" /\ PrimaryRaised /\ RetryReturned =>
    /\ emitted[1].signal = "download_complete"
    /\ DeliveredContext(emitted[1]) = primary_err

(***************************************************************************)
(* C6 as amended: when the primary attempt raised and the retry returned,  *)
(* the one outcome is delivered on download_complete, never on             *)
(* download_error; the context of the primary failure (its error and its   *)
(* traceback) was captured in primary_err, and the delivered outcome       *)
(* carries the resolved path or the generic message and no diagnostic      *)
(* context.                                                                *)
(***************************************************************************)
C6_RetrySuccessIsComplete ==
  /\ PrimaryRaised /\ RetryReturned =>
       /\ Failures = <<>>
       /\ primary_err.err = attempts[1].err
       /\ primary_err.tb = attempts[1].err
       /\ primary_err.err \in ExtractorErrors
  /\ pc = "done" /\ PrimaryRaised /\ RetryReturned =>
       /\ Len(emitted) = 1
       /\ emitted[1].signal = "download_complete"
       /\ emitted[1].arg.kind \in {"path", "finished"}
       /\ DeliveredContext(emitted[1]) = NoContext

C6_Witness ==
  /\ pc = "done"
  /\ PrimaryRaised
  /\ RetryReturned
  /\ emitted[1].signal = "download_complete"
  /\ emitted[1].arg.kind = "path"

(***************************************************************************)
(* C7. When both attempts raised, the run ends with one download_error     *)
(* whose report holds the error (type and message) and traceback of the    *)
(* primary attempt, those of the retry, the last 25 (or fewer, when fewer  *)
(* were buffered) progress events buffered when the primary attempt        *)
(* raised, and the last 50 (or fewer) buffered when the retry raised.      *)
(***************************************************************************)
C7_FullErrorReport ==
  pc = "done" /\ PrimaryRaised /\ RetryRaised =>
    /\ Len(emitted) = 1
    /\ emitted[1].signal = "download_error"
    /\ emitted[1].arg.kind = "full_err"
    /\ emitted[1].arg.primary.err = attempts[1].err
    /\ emitted[1].arg.primary.tb = attempts[1].err
    /\ emitted[1].arg.retry.err = attempts[2].err
    /\ emitted[1].arg.retry.tb = attempts[2].err
    /\ Len(emitted[1].arg.primary.dbg) <= 25
    /\ Len(emitted[1].arg.retry.dbg) <= 50
    /\ emitted[1].arg.primary.dbg = LastEvents(attempts[1].events, 25)
    /\ emitted[1].arg.retry.dbg = LastEvents(attempts[2].events, 50)

C7_Witness ==
  /\ pc = "done"
  /\ PrimaryRaised
  /\ RetryRaised
  /\ attempts[1].events > 25
  /\ attempts[2].events > 50 + attempts[1].events
  /\ attempts[1].err # attempts[2].err
  /\ Len(emitted[1].arg.primary.dbg) = 25
  /\ Len(emitted[1].arg.retry.dbg) = 50

(***************************************************************************)
(* C8. Once an attempt has returned, the run raises nothing and reports no *)
(* Failure: it ends with one download_complete, carrying the resolved path *)
(* when that path exists on disk, and the generic message otherwise: when  *)
(* no path was resolved (prepare_filename raising included) or when the    *)
(* resolved path does not exist.                                           *)
(***************************************************************************)
C8_ReturnedNeverFails ==
  PrimaryReturned \/ RetryReturned =>
    /\ Failures = <<>>
    /\ raised = NoErr
    /\ pc \in {"resolve", "emit", "done"}
    /\ pc = "done" =>
         /\ Len(emitted) = 1
         /\ emitted[1].signal = "download_complete"
         /\ saved_path # <<>> /\ saved_path \in fs.files =>
              emitted[1].arg = [kind |-> "path", path |-> saved_path]
         /\ saved_path = <<>> \/ saved_path \notin fs.files =>
              emitted[1].arg.kind = "finished"

C8_Witness ==
  /\ pc = "done"
  /\ RetryReturned
  /\ info.isdict
  /\ CandidateA = <<>>
  /\ CandidateB = <<>>
  /\ saved_path = <<>>
  /\ PREPARED \in fs.files
  /\ emitted[1].signal = "download_complete"
  /\ emitted[1].arg.kind = "finished"

(***************************************************************************)
(* C9 as stated: after a download the outcome is the path when one of the  *)
(* candidates (a) requested_downloads[0].filepath, (b) _filename/filename, *)
(* (c) the path rebuilt from the template is found and exists on disk, and *)
(* the generic message only when no candidate exists on disk.              *)
(***************************************************************************)
C9_Original ==
  pc = "done" /\ (PrimaryReturned \/ RetryReturned) =>
    LET candidates == ({CandidateA, CandidateB, saved_path} \ {<<>>}) \cap fs.files
    IN /\ emitted[1].arg.kind = "finished" => candidates = {}
       /\ emitted[1].arg.kind = "path" => emitted[1].arg.path \in candidates

(***************************************************************************)
(* C9 as amended: after a download the saved path is the first non-empty   *)
(* of (a) requested_downloads[0].filepath, (b) _filename or else filename, *)
(* (c) the path prepare_filename rebuilds from the output template, where  *)
(* (c) is asked for only when (a) and (b) are empty; the outcome is the    *)
(* path exactly when that first non-empty candidate exists on disk, and    *)
(* the generic message otherwise, also when a later candidate exists.      *)
(***************************************************************************)
C9_FirstCandidateDecides ==
  pc \in {"emit", "done"} /\ (PrimaryReturned \/ RetryReturned) =>
    LET named == IF CandidateA # <<>> THEN CandidateA ELSE CandidateB
        rebuilt == SelectSeq(calls, LAMBDA c : c.op = "prepare_filename")
    IN /\ named # <<>> => saved_path = named /\ rebuilt = <<>>
       /\ named = <<>> =>
            /\ Len(rebuilt) = 1
            /\ rebuilt[1].opts.outtmpl = outtmpl
            /\ saved_path \in {<<>>, PREPARED}
       /\ pc = "done" =>
            /\ emitted[1].signal = "download_complete"
            /\ emitted[1].arg.kind = "path" <=> (saved_path # <<>> /\ saved_path \in fs.files)
            /\ emitted[1].arg.kind = "path" => emitted[1].arg.path = saved_path

C9_Witness ==
  /\ pc = "done"
  /\ CandidateA = FILEPATH
  /\ CandidateB = FILENAME
  /\ FILEPATH \notin fs.files
  /\ FILENAME \in fs.files
  /\ emitted[1].arg.kind = "finished"

\* where the host of a url starts: after "://" when the url has one
HostStart(u) ==
  IF \E i \in 1..(Len(u) - 2) : SubSeq(u, i, i + 2) = <<":", "/", "/">>
  THEN 3 + CHOOSE i \in 1..(Len(u) - 2) :
             /\ SubSeq(u, i, i + 2) = <<":", "/", "/">>
             /\ \A j \in 1..(i - 1) : SubSeq(u, j, j + 2) # <<":", "/", "/">>
  ELSE 1

\* the lowercased host of a url: what follows the scheme, up to the path
HostOf(url) ==
  LET u == Lower(Strip(url))
      rest == SubSeq(u, HostStart(u), Len(u))
      delim == FirstOf(rest, {"/", "?", "#"})
  IN IF delim = 0 THEN rest ELSE SubSeq(rest, 1, delim - 1)

\* the host fragment of an allow-list entry: the entry stripped and lowercased,
\* and its host when it carries a scheme
FragmentOf(entry) ==
  LET s == Lower(Strip(entry))
  IN IF HostStart(s) > 1 THEN HostOf(s) ELSE s

IsString(v) == v \notin {NONE, NONSTR}

(***************************************************************************)
(* C10. For every url U and every allow-list of one entry E, a string      *)
(* whose host fragment is not empty and is a substring of the lowercased   *)
(* host of U, is_supported_url(U, [E]) returns True.                       *)
(***************************************************************************)
C10_FragmentInHostIsSupported ==
  /\ site_check.result # "pending"
  /\ Len(site_check.supported_sites) = 1
  /\ IsString(site_check.supported_sites[1])
  /\ FragmentOf(site_check.supported_sites[1]) # <<>>
  /\ Contains(HostOf(site_check.url), FragmentOf(site_check.supported_sites[1]))
  => site_check.result = "True"

C10_Witness ==
  /\ site_check.result = "True"
  /\ Len(site_check.supported_sites) = 1
  /\ site_check.supported_sites[1] = HTTPS \o <<"a", ".", "b", "/", "x">>
  /\ FragmentOf(site_check.supported_sites[1]) = <<"a", ".", "b">>
  /\ ~HasHttpPrefix(Lower(site_check.url))
  /\ HostOf(site_check.url) = <<"x", "a", ".", "b", "x">>
  /\ Contains(HostOf(site_check.url), FragmentOf(site_check.supported_sites[1]))

(***************************************************************************)
(* C11. For every url string (the empty string, strings of blanks and      *)
(* strings with no scheme included) and every allow-list, a call of        *)
(* is_supported_url ends by returning a boolean, never by raising; when    *)
(* the body of the function fails (urlparse raising on the url, an entry   *)
(* of the list that is no string) the value returned is True.              *)
(***************************************************************************)
C11_NeverRaisesFailsOpen ==
  site_check.result # "pending" =>
    /\ site_check.result \in {"True", "False"}
    /\ SupportedTry(site_check.url, site_check.supported_sites) = "raise" =>
         site_check.result = "True"

C11_Witness ==
  /\ site_check.result = "True"
  /\ site_check.url = <<"a", ".", "b">>
  /\ site_check.supported_sites = <<NONSTR>>
  /\ SupportedTry(site_check.url, site_check.supported_sites) = "raise"

\* the configured path of a tool check, stripped, and its parent directory
CheckedPath == StripPath(tool_check.ffmpeg_path)

CheckedParent == Dirname(CheckedPath)

(***************************************************************************)
(* C12 as stated: when the configured path names nothing that exists and   *)
(* the binary is not on the search path, ffmpeg_available and              *)
(* ffprobe_available return False, whatever else the filesystem holds.     *)
(***************************************************************************)
C12_Original ==
  Kind(fs, CheckedPath) = "none" =>
    /\ ~Which(fs, "ffmpeg") => tool_check.ffmpeg \in {"pending", "False"}
    /\ ~Which(fs, "ffprobe") => tool_check.ffprobe \in {"pending", "False"}

(***************************************************************************)
(* C12 as amended: when the configured path names nothing that exists and  *)
(* the binary is not on the search path, ffprobe_available returns False   *)
(* whatever else the filesystem holds, and ffmpeg_available returns False  *)
(* unless the path is an explicit one whose parent directory holds an      *)
(* executable ffmpeg: then it returns True.                                *)
(***************************************************************************)
C12_NonexistentPathIsFalse ==
  Kind(fs, CheckedPath) = "none" =>
    /\ tool_check.ffprobe # "pending" /\ ~Which(fs, "ffprobe") => tool_check.ffprobe = "False"
    /\ tool_check.ffmpeg # "pending" /\ ~Which(fs, "ffmpeg") =>
         (tool_check.ffmpeg = "True" <=>
            /\ ExplicitPath(tool_check.ffmpeg_path)
            /\ CheckedParent # <<>>
            /\ IsDir(fs, CheckedParent)
            /\ ExecFile(fs, Join(CheckedParent, "ffmpeg")))

C12_Witness ==
  /\ tool_check.ffmpeg_path = [pad |-> FALSE, comps |-> Join(OPT, "tool")]
  /\ Kind(fs, CheckedPath) = "none"
  /\ fs.on_path = {}
  /\ ExecFile(fs, Join(OPT, "ffmpeg"))
  /\ ExecFile(fs, Join(OPT, "ffprobe"))
  /\ tool_check.ffmpeg = "True"
  /\ tool_check.ffprobe = "False"

\* nothing executable of that name where the configured path points: the path
\* itself (for ffmpeg), the directory it names, its parent directory
NothingAtConfigured(name) ==
  /\ name = "ffmpeg" => ~ExecFile(fs, CheckedPath)
  /\ ~ExecFile(fs, Join(CheckedPath, name))
  /\ ~ExecFile(fs, Join(CheckedParent, name))

(***************************************************************************)
(* C13. With an explicit configured path at which nothing is found (a file *)
(* that is not executable, a directory without the binary, a path whose    *)
(* parent is without it), ffmpeg_available and ffprobe_available search    *)
(* the system search path and return True iff the binary is found there.   *)
(***************************************************************************)
C13_FallsBackToSearchPath ==
  ExplicitPath(tool_check.ffmpeg_path) =>
    /\ tool_check.ffmpeg # "pending" /\ NothingAtConfigured("ffmpeg") =>
         (tool_check.ffmpeg = "True" <=> Which(fs, "ffmpeg"))
    /\ tool_check.ffprobe # "pending" /\ NothingAtConfigured("ffprobe") =>
         (tool_check.ffprobe = "True" <=> Which(fs, "ffprobe"))

\* the hub has a job in flight: a worker started whose outcome no slot has received
InFlight == started > Len(received)

\* the worker the hub started is running: it has not emitted its outcome
WorkerRunning == started > 0 /\ pc # "done"

(***************************************************************************)
(* C14. While the hub has a job in flight (a worker started, its outcome   *)
(* not yet received) the Download button is disabled, so that no second    *)
(* worker is started: the workers started exceed the outcomes received by  *)
(* at most one, and a running worker is the one in flight.  When no job is *)
(* in flight the button is enabled: before the first click, after a click  *)
(* rejected for an empty url or a declined question, and after each        *)
(* download_finished and download_failed.                                  *)
(***************************************************************************)
C14_ButtonDisabledWhileInFlight ==
  /\ InFlight => ~hub.enabled /\ hub.text = "Downloading..."
  /\ started - Len(received) \in {0, 1}
  /\ WorkerRunning => InFlight
  /\ ~InFlight => hub.enabled /\ hub.text = "Download"
  /\ ENABLED OnDownloadClicked => ~InFlight /\ ~WorkerRunning

C14_Witness ==
  /\ started = 2
  /\ Len(received) = 2
  /\ received[1] = "download_error"
  /\ received[2] = "download_complete"
  /\ hub.enabled
  /\ hub.dialog = "Download Complete"

(***************************************************************************)
(* C15. The fields of a worker (video_url, ffmpeg_path, directory,         *)
(* filename_template, manual_filename, cookies_file, referer) change in no *)
(* step but the construction of the next worker: no step of run assigns    *)
(* them, and select_directory and a reload of the configuration, at any    *)
(* point of the run, change the hub's fields and leave the worker's alone. *)
(***************************************************************************)
C15_JobFieldsNeverAssigned == [][started' = started => worker' = worker]_vars

C15_Witness ==
  /\ pc = "done"
  /\ InFlight
  /\ emitted # <<>>
  /\ worker.directory = <<"/", "d">>
  /\ hub.save_directory = <<"/", "e">>
  /\ worker.filename_template # hub.filename_template
  /\ worker.ffmpeg_path # hub.ffmpeg_path
  /\ worker.cookies_file # hub.cookies_file

(***************************************************************************)
(* C16. After every progress event, in the primary attempt and in the      *)
(* retry, the buffer debug_messages holds at most 200 entries, and they    *)
(* are the last events delivered, in the order of their arrival: all of    *)
(* them while they are at most 200, the latest 200 afterwards.             *)
(***************************************************************************)
C16_BufferHoldsLatestEvents ==
  /\ Len(debug_messages) <= 200
  /\ debug_messages = LastEvents(hooked, 200)

C16_Witness ==
  /\ pc = "retry"
  /\ attempts[1].events \in 1..199
  /\ hooked = 201
  /\ Len(debug_messages) = 200
  /\ debug_messages[1] = 2
  /\ debug_messages[200] = 201

(***************************************************************************)
(* C17. The options passed to the retry equal those passed to the primary  *)
(* attempt in the output template, the playlist flag (set), the cookies    *)
(* file, the tool location, the Referer header, the logger and the         *)
(* progress hook; only the format differs, 'bestvideo+bestaudio/best' in   *)
(* the primary attempt and 'best' in the retry; and ydl_opts is after the  *)
(* retry what was passed to the primary attempt.                           *)
(***************************************************************************)
C17_RetryOptionsDifferInFormat ==
  /\ Len(DownloadCalls) >= 1 =>
       /\ DownloadCalls[1].opts = ydl_opts
       /\ DownloadCalls[1].opts.format = "bestvideo+bestaudio/best"
       /\ DownloadCalls[1].opts.noplaylist
  /\ Len(DownloadCalls) = 2 =>
       LET p == DownloadCalls[1].opts
           r == DownloadCalls[2].opts
       IN /\ r.format = "best"
          /\ r.outtmpl = p.outtmpl
          /\ r.noplaylist
          /\ r.cookiefile = p.cookiefile
          /\ r.ffmpeg_location = p.ffmpeg_location
          /\ r.referer = p.referer
          /\ r.logger = p.logger
          /\ r.progress_hooks = p.progress_hooks
          /\ r.logger /\ r.progress_hooks

C17_Witness ==
  /\ Len(DownloadCalls) = 2
  /\ RetryRaised
  /\ DownloadCalls[2].opts.cookiefile = COOKIES_OK
  /\ DownloadCalls[2].opts.ffmpeg_location = OPT
  /\ DownloadCalls[2].opts.referer = "https://www.instagram.com/"
  /\ DownloadCalls[2].opts.format = "best"
  /\ ydl_opts.format = "bestvideo+bestaudio/best"

\* run has composed the output template: lines 150-156 have not raised
Composed == pc \notin {"prepare"} /\ ~PrepareRaises(worker)

\* the base name of the explicit filename: what follows its last separator
GivenBaseName == Basename(Strip(worker.manual_filename))

\* '.%(ext)s'
DOT_EXT == <<".">> \o EXT

OptionsBuilt == pc \in {"tools", "primary_start", "primary"}

(***************************************************************************)
(* C19. The options carry the Referer 'https://www.instagram.com/' if and  *)
(* only if the host of the url contains 'instagram.com'; a url that has it *)
(* in its path or query only gets no Referer.                              *)
(***************************************************************************)
C19_RefererIffInstagramHost ==
  OptionsBuilt =>
    (ydl_opts.referer = "https://www.instagram.com/"
       <=> Contains(HostOf(worker.video_url), INSTAGRAM))

(***************************************************************************)
(* C20. Every run of VideoInfoFetcher.run ends with info_fetched emitted   *)
(* exactly once and with no exception leaving it: when extract_info (called *)
(* with download=False) raised, the structure emitted carries the error    *)
(* text in 'error'; when it returned, the structure emitted is what it     *)
(* returned; and the run starts no worker and makes no downloading call.   *)
(***************************************************************************)
C20_FetcherEmitsOnce ==
  /\ \A i \in 1..Len(fetcher.calls) : ~fetcher.calls[i].download
  /\ started = 0 /\ calls = <<>> /\ pc = "prepare"
  /\ Len(fetcher.emitted) <= 1
  /\ fetcher.pc = "done" =>
       /\ fetcher.escaped = NoErr
       /\ Len(fetcher.emitted) = 1
       /\ fetcher.result = "raised" =>
            /\ fetcher.emitted[1].isdict
            /\ fetcher.emitted[1].error \in {e.msg : e \in ExtractorErrors}
       /\ fetcher.result = "returned" => fetcher.emitted[1] = fetcher.returned

\* both availability checks of lines 212-216 passed and the extractor was given options
ChecksPassed ==
  /\ calls # <<>>
  /\ ffmpeg_available(fs, worker.ffmpeg_path)
  /\ ffprobe_available(fs, worker.ffmpeg_path)

\* the two functions answer True exactly where a binary was found
FoundAgreesWithAvailable ==
  /\ ffmpeg_available(fs, worker.ffmpeg_path) <=> FfmpegFoundIn(fs, worker.ffmpeg_path) # NOT_FOUND
  /\ ffprobe_available(fs, worker.ffmpeg_path) <=> FfprobeFoundIn(fs, worker.ffmpeg_path) # NOT_FOUND

(***************************************************************************)
(* C21. When both availability checks passed, an ffmpeg_location given to  *)
(* the extractor is a directory in which the checks found both the merge   *)
(* binary and the probe binary; and when both checks passed through the    *)
(* search path only, no ffmpeg_location is given to the extractor.         *)
(***************************************************************************)
C21_LocationIsWhereBothWereFound ==
  ChecksPassed =>
    \A i \in 1..Len(calls) :
      LET location == calls[i].opts.ffmpeg_location
      IN /\ location # <<>> =>
              /\ IsDir(fs, location)
              /\ FfmpegFoundIn(fs, worker.ffmpeg_path) = location
              /\ FfprobeFoundIn(fs, worker.ffmpeg_path) = location
         /\ (/\ FfmpegFoundIn(fs, worker.ffmpeg_path) = SEARCH_PATH
             /\ FfprobeFoundIn(fs, worker.ffmpeg_path) = SEARCH_PATH) => location = <<>>

(***************************************************************************)
(* C22. A call of is_supported_url returns False exactly when the url is   *)
(* the empty string: for every url that is not empty and every allow-list  *)
(* (the empty list, lists with no matching entry, lists with entries that  *)
(* are no strings) it returns True, so the value is a function of the url  *)
(* alone; and for the text of the url field, stripped and not empty, the   *)
(* condition of the hub's unknown-site prompt is false.                    *)
(***************************************************************************)
C22_FalseOnlyForEmptyUrl ==
  site_check.result # "pending" =>
    /\ site_check.result = (IF site_check.url = <<>> THEN "False" ELSE "True")
    /\ Strip(site_check.url) # <<>> =>
         ~UnknownSite(Strip(site_check.url), site_check.supported_sites)

C22_Witness ==
  /\ site_check.result = "True"
  /\ site_check.url = <<"b">>
  /\ site_check.supported_sites = << <<"c", ".", "d">> >>
  /\ SupportedTry(site_check.url, site_check.supported_sites) = "True"
  /\ ~SiteMatches(site_check.supported_sites[1], HostOf(site_check.url))
  /\ ~UnknownSite(Strip(site_check.url), site_check.supported_sites)

====
